---- MODULE Spec2Model ----
(***************************************************************************)
(* Model of libavfilter/vf_flootay.c: the flootay overlay filter.          *)
(*                                                                         *)
(* Memory is modelled as byte sequences addressed by C pointer offsets     *)
(* (offset p is element p + 1).  The cairo ARGB32 raster is a sequence of  *)
(* 32-bit texels kept as records [a, r, g, b]; a texel is addressed by the *)
(* byte offset the code uses (offset p is texel p \div 4).  The doubles of *)
(* rgb_to_yuv are modelled as exact rationals (integer numerator and       *)
(* denominator), so the truncating conversions are computed exactly.       *)
(***************************************************************************)
EXTENDS Integers, Sequences, FiniteSets, TLC

VARIABLES flt, call, held, probe

vars == <<flt, call, held, probe>>

(***************************************************************************)
(* Bounds of the model.                                                    *)
(***************************************************************************)
MaxPad == 1
MaxHeld == 2
MaxBlocks == 2

(***************************************************************************)
(* C arithmetic.                                                           *)
(***************************************************************************)
\* int / int in C truncates toward zero
CDiv(n, d) == IF n >= 0 THEN n \div d ELSE -((-n) \div d)

\* conversion of an int to uint8_t
U8(n) == n % 256

Rd(buf, p) == buf[p + 1]

\* a buffer of len elements, element i holding f[i]
Buffer(f, len) == SubSeq(f, 1, len)

Texel(a, r, g, b) == [a |-> a, r |-> r, g |-> g, b |-> b]

Transparent == Texel(0, 0, 0, 0)

\* memcpy(&src_pixel, src, sizeof src_pixel) on the raster
ReadTexel(surface, p) == surface.data[(p \div 4) + 1]

NullSurface == [w |-> 0, h |-> 0, stride |-> 0, data |-> <<>>]

\* cairo_image_surface_create(CAIRO_FORMAT_ARGB32, w, h): stride 4 * w, zeroed
cairo_image_surface_create(w, h) ==
    [w |-> w, h |-> h, stride |-> 4 * w,
     data |-> Buffer([i \in 1..(w * h) |-> Transparent], w * h)]

\* cairo_paint with source (0,0,0,0) and CAIRO_OPERATOR_SOURCE
cairo_paint_clear(surface) ==
    [surface EXCEPT !.data = Buffer([i \in 1..Len(surface.data) |-> Transparent],
                                    Len(surface.data))]

AllTransparent(surface) ==
    \A i \in 1..Len(surface.data) : surface.data[i] = Transparent

(***************************************************************************)
(* Alpha blend primitive.                                                  *)
(***************************************************************************)
blend_component_wrong(dst, src, a) ==
    U8((dst * (256 - a) + src * a) \div 255)

blend_component(dst, src, a) == U8((dst * (255 - a) + src * a) \div 255)

\* a store through a destination pointer, with a count of the stores per byte
Store(st, plane, p, v) ==
    [st EXCEPT !.data[plane][p + 1] = v, !.wr[plane][p + 1] = @ + 1]

BlendAt(st, plane, p, src, a) ==
    Store(st, plane, p, blend_component(Rd(st.data[plane], p), src, a))

(***************************************************************************)
(* Packed-RGB compositor.                                                  *)
(***************************************************************************)
\* line 126: *dst = (*dst * (255 - alpha) + c) / 255 with c = byte * 255
rgb_store(d, alpha, byte) == U8((d * (255 - alpha) + byte * 255) \div 255)

\* lines 121-129: one pixel, channels taken from the low byte upwards
rgb_pixel(surface, st) ==
    LET px == ReadTexel(surface, st.src)
        s0 == Store(st, 1, st.dst, rgb_store(Rd(st.data[1], st.dst), px.a, px.b))
        s1 == Store(s0, 1, st.dst + 1,
                    rgb_store(Rd(s0.data[1], st.dst + 1), px.a, px.g))
        s2 == Store(s1, 1, st.dst + 2,
                    rgb_store(Rd(s1.data[1], st.dst + 2), px.a, px.r))
    IN [s2 EXCEPT !.src = @ + 4, !.dst = @ + 3]

\* The loops below run one iteration, then go on from the state it left: the
\* state s is bound to the value of the iteration (the only element of a
\* one-element set) before the rest of the loop is evaluated.
RECURSIVE rgb_cols(_, _, _, _)
rgb_cols(surface, st, x, width) ==
    IF x >= width THEN st
    ELSE CHOOSE r \in {rgb_cols(surface, s, x + 1, width) :
                          s \in {rgb_pixel(surface, st)}} : TRUE

RECURSIVE rgb_rows(_, _, _, _)
rgb_rows(surface, picref, st, y) ==
    IF y >= picref.height THEN st
    ELSE CHOOSE r \in
            {rgb_rows(surface, picref,
                      [s EXCEPT !.src = @ + surface.stride - picref.width * 4,
                                !.dst = @ + picref.linesize[1]
                                          - picref.width * 3],
                      y + 1) :
                s \in {rgb_cols(surface, st, 0, picref.width)}} : TRUE

ZeroCounts(data) ==
    <<Buffer([i \in 1..Len(data[1]) |-> 0], Len(data[1])),
      Buffer([i \in 1..Len(data[2]) |-> 0], Len(data[2])),
      Buffer([i \in 1..Len(data[3]) |-> 0], Len(data[3]))>>

\* what a compositor hands back: its return value, the context and the frame
Blended(ret, f, st) == [ret |-> ret, flt |-> f, data |-> st.data, wr |-> st.wr]

blend_surface_rgb(f, picref) ==
    Blended(0, f, rgb_rows(f.surface, picref,
                           [src |-> 0, dst |-> 0, data |-> picref.data,
                            wr |-> ZeroCounts(picref.data)], 0))

(***************************************************************************)
(* Colour-space parameters.  A 3x3 matrix of doubles is kept as integer    *)
(* numerators n[i][j] over one denominator d[i] per row; the four range    *)
(* constants are kept in units of 1/510, which represents every value of   *)
(* the table exactly: 219/255 = 438/510, 0.5 = 255/510.                    *)
(***************************************************************************)
\* AVERROR(EINVAL) and AVERROR_EXTERNAL (FFERRTAG('E','X','T',' '))
AVERROR_EINVAL == -22

AVERROR_EXTERNAL == -542398533

LimitedRow == [y_multiply |-> 438, y_add |-> 32,
               uv_multiply |-> 448, uv_add |-> 256]

FullRow == [y_multiply |-> 510, y_add |-> 0,
            uv_multiply |-> 510, uv_add |-> 255]

ZeroMatrix == [n |-> <<<<0, 0, 0>>, <<0, 0, 0>>, <<0, 0, 0>>>>,
               d |-> <<1, 1, 1>>]

\* av_csp_luma_coeffs_from_avcsp: cr, cg, cb over k; NullLuma (the table's
\* zero entry) stands for the NULL returned when the tag has no luma
\* coefficients.  BT.709 is 0.2126, 0.7152, 0.0722.
NullLuma == [cr |-> 0, cg |-> 0, cb |-> 0, k |-> 1]

av_csp_luma_coeffs_from_avcsp(csp) ==
    CASE csp = "SMPTE170M" -> [cr |-> 299, cg |-> 587, cb |-> 114, k |-> 1000]
      [] csp = "BT709" -> [cr |-> 1063, cg |-> 3576, cb |-> 361, k |-> 5000]
      [] OTHER -> NullLuma

\* ff_fill_rgb2yuv_table: bscale = 0.5 / (cb - 1), rscale = 0.5 / (cr - 1)
ff_fill_rgb2yuv_table(luma) ==
    [n |-> << <<luma.cr, luma.cg, luma.cb>>,
              <<-luma.cr, -luma.cg, luma.k - luma.cb>>,
              <<luma.k - luma.cr, -luma.cg, -luma.cb>> >>,
     d |-> <<luma.k, 2 * (luma.k - luma.cb), 2 * (luma.k - luma.cr)>>]

PixFmts == {"BGR24", "YUV420P", "YUVJ420P"}

\* av_pix_fmt_desc_get: a descriptor exists for every known format
av_pix_fmt_desc_get(format) == IF format \in PixFmts THEN format ELSE "NULL"

\* lines 223-233: the range constants follow the frame's colour-range tag
range_constants(picref) ==
    IF picref.color_range = "MPEG" THEN LimitedRow ELSE FullRow

SetRange(f, row) ==
    [f EXCEPT !.y_multiply = row.y_multiply, !.y_add = row.y_add,
              !.uv_multiply = row.uv_multiply, !.uv_add = row.uv_add]

init_rgb2yuv(f, picref) ==
    LET desc == av_pix_fmt_desc_get(picref.format)
        csp == IF picref.colorspace = "UNSPECIFIED" THEN "SMPTE170M"
               ELSE picref.colorspace
        luma == av_csp_luma_coeffs_from_avcsp(csp)
    IN IF desc = "NULL" THEN [ret |-> AVERROR_EINVAL, flt |-> f]
       ELSE IF luma = NullLuma THEN [ret |-> AVERROR_EINVAL, flt |-> f]
       ELSE [ret |-> 0,
             flt |-> SetRange([f EXCEPT !.rgb2yuv = ff_fill_rgb2yuv_table(luma)],
                              range_constants(picref))]

(***************************************************************************)
(* 2x2 block reducer.                                                      *)
(***************************************************************************)
\* the outcomes of converting an out-of-range double to uint8_t (undefined
\* behaviour): the low 8 bits of the truncated value, or saturation
UBConv == {"wrap", "sat"}

\* rgbd[c] = byte / 255.0, times 255 / a when a != 0: byte over Unpremul(a)
Unpremul(a) == IF a # 0 THEN a ELSE 255

\* ff_matrix_mul_3x3_vec, row i: numerator of yuvd[i] for one texel
MatRow(m, i, px) == m.n[i][1] * px.r + m.n[i][2] * px.g + m.n[i][3] * px.b

\* yuvd[i] * mul + add, times 255.0, plus 0.5f: numerator over 2 * den
ScaledNum(num, den, mul, add) == num * mul + (add + 1) * den

\* y_out[i] = yuvd[0] * 255.0 + 0.5f (double to uint8_t)
ToU8(num, den, ub) ==
    LET t == num \div (2 * den)
    IN IF t <= 255 THEN t ELSE IF ub = "wrap" THEN t % 256 ELSE 255

\* u_sum += yuvd[1] * 255.0 + 0.5f (int + double, truncated back to int)
AddTrunc(sum, num, den) ==
    LET s == sum + (num \div (2 * den))
    IN IF s >= 0 \/ num % (2 * den) = 0 THEN s ELSE s + 1

\* lines 155-172: the luma byte of one texel
texel_luma(f, px, ub) ==
    LET den == f.rgb2yuv.d[1] * Unpremul(px.a)
    IN ToU8(ScaledNum(MatRow(f.rgb2yuv, 1, px), den, f.y_multiply, f.y_add),
            den, ub)

\* lines 154-175: the texel i of the block at src
rgb_to_yuv_texel(f, src, src_stride, acc, i, ub) ==
    LET x == i % 2
        y == i \div 2
        px == ReadTexel(f.surface, src + x * 4 + y * src_stride)
        den == Unpremul(px.a)
        m == f.rgb2yuv
        un == ScaledNum(MatRow(m, 2, px), m.d[2] * den,
                        f.uv_multiply, f.uv_add)
        vn == ScaledNum(MatRow(m, 3, px), m.d[3] * den,
                        f.uv_multiply, f.uv_add)
    IN [y_out |-> Append(acc.y_out, texel_luma(f, px, ub)),
        a |-> Append(acc.a, px.a),
        u_sum |-> AddTrunc(acc.u_sum, un, m.d[2] * den),
        v_sum |-> AddTrunc(acc.v_sum, vn, m.d[3] * den)]

RECURSIVE rgb_to_yuv_loop(_, _, _, _, _, _)
rgb_to_yuv_loop(f, src, src_stride, acc, i, ub) ==
    IF i >= 4 THEN acc
    ELSE rgb_to_yuv_loop(f, src, src_stride,
                         rgb_to_yuv_texel(f, src, src_stride, acc, i, ub),
                         i + 1, ub)

\* lines 179-180
rgb_to_yuv_out(acc) ==
    [y_out |-> acc.y_out, a |-> acc.a,
     u |-> U8(CDiv(acc.u_sum, 4)), v |-> U8(CDiv(acc.v_sum, 4))]

rgb_to_yuv(f, src, src_stride, ub) ==
    rgb_to_yuv_out(rgb_to_yuv_loop(f, src, src_stride,
                                   [y_out |-> <<>>, a |-> <<>>,
                                    u_sum |-> 0, v_sum |-> 0], 0, ub))

(***************************************************************************)
(* Planar-YUV compositor.                                                  *)
(***************************************************************************)
blend_y_first_alpha(st, dst, dst_stride, y_comp, a) ==
    LET s0 == BlendAt(st, 1, dst, y_comp[1], a[1])
        s1 == BlendAt(s0, 1, dst + 1, y_comp[2], a[1])
        s2 == BlendAt(s1, 1, dst + dst_stride, y_comp[3], a[1])
    IN BlendAt(s2, 1, dst + dst_stride + 1, y_comp[4], a[1])

blend_y(st, dst, dst_stride, y_comp, a) ==
    LET s0 == BlendAt(st, 1, dst, y_comp[1], a[1])
        s1 == BlendAt(s0, 1, dst + 1, y_comp[2], a[2])
        s2 == BlendAt(s1, 1, dst + dst_stride, y_comp[3], a[3])
    IN BlendAt(s2, 1, dst + dst_stride + 1, y_comp[4], a[4])

\* lines 261-274: the block whose reduction is r
yuv_blend_block(picref, st, r) ==
    LET a_avg == (r.a[1] + r.a[2] + r.a[3] + r.a[4]) \div 4
    IN [BlendAt(BlendAt(blend_y(st, st.dst_y, picref.linesize[1], r.y_out, r.a),
                        2, st.dst_u, r.u, U8(a_avg)),
                3, st.dst_v, r.v, U8(a_avg))
          EXCEPT !.src = @ + 4 * 2, !.dst_y = @ + 2,
                 !.dst_u = @ + 1, !.dst_v = @ + 1]

\* lines 259-274: one 2x2 block
yuv_block(f, picref, st, ub) ==
    yuv_blend_block(picref, st, rgb_to_yuv(f, st.src, f.surface.stride, ub))

RECURSIVE yuv_cols(_, _, _, _, _)
yuv_cols(f, picref, st, x, ub) ==
    IF x >= picref.width THEN st
    ELSE CHOOSE r \in {yuv_cols(f, picref, s, x + 2, ub) :
                          s \in {yuv_block(f, picref, st, ub)}} : TRUE

\* lines 277-280: the pointers move on to the next block row
yuv_next_row(f, picref, s) ==
    [s EXCEPT !.src = @ + f.surface.stride * 2 - picref.width * 4,
              !.dst_y = @ + picref.linesize[1] * 2 - picref.width,
              !.dst_u = @ + picref.linesize[2] - picref.width \div 2,
              !.dst_v = @ + picref.linesize[3] - picref.width \div 2]

RECURSIVE yuv_rows(_, _, _, _, _)
yuv_rows(f, picref, st, y, ub) ==
    IF y >= picref.height THEN st
    ELSE CHOOSE r \in
            {yuv_rows(f, picref, s, y + 2, ub) :
                s \in {yuv_next_row(f, picref,
                                    yuv_cols(f, picref, st, 0, ub))}} : TRUE

\* lines 257-283: the loop over the blocks, from the start of every plane
yuv_loop(f, picref, ub) ==
    yuv_rows(f, picref,
             [src |-> 0, dst_y |-> 0, dst_u |-> 0, dst_v |-> 0,
              data |-> picref.data, wr |-> ZeroCounts(picref.data)], 0, ub)

yuv_after_init_ignoring_ret(init, picref, ub) ==
    Blended(0, init.flt, yuv_loop(init.flt, picref, ub))

\* lines 254-283: return the error of init_rgb2yuv, or run the loop
yuv_after_init(init, picref, ub) ==
    IF init.ret # 0
    THEN [ret |-> init.ret, flt |-> init.flt, data |-> picref.data,
          wr |-> ZeroCounts(picref.data)]
    ELSE Blended(0, init.flt, yuv_loop(init.flt, picref, ub))

blend_surface_yuv(f, picref, ub) ==
    yuv_after_init(init_rgb2yuv(f, picref), picref, ub)

(***************************************************************************)
(* Frames handed in by the host pipeline and drawings of the renderer.     *)
(***************************************************************************)
Csps == {"UNSPECIFIED", "BT709", "RESERVED"}

Ranges == {"UNSPECIFIED", "MPEG", "JPEG"}

\* the byte at offset i of plane p of a frame filled from seed
FrameByte(seed, p, i) == (seed + 37 * i + 101 * (p - 1)) % 256

Plane(seed, p, len) ==
    Buffer([i \in 1..len |-> FrameByte(seed, p, i - 1)], len)

\* a frame whose plane p has pads[p] bytes of padding at the end of each row
MkFrameP(format, csp, range, w, h, pads, seed) ==
    LET ls == IF format = "BGR24" THEN <<3 * w + pads[1], 0, 0>>
              ELSE <<w + pads[1], w \div 2 + pads[2], w \div 2 + pads[3]>>
    IN [format |-> format, colorspace |-> csp, color_range |-> range,
        width |-> w, height |-> h, linesize |-> ls,
        data |-> <<Plane(seed, 1, ls[1] * h),
                   Plane(seed, 2, ls[2] * (h \div 2)),
                   Plane(seed, 3, ls[3] * (h \div 2))>>]

MkFrame(format, csp, range, w, h, pad, seed) ==
    MkFrameP(format, csp, range, w, h, <<pad, pad, pad>>, seed)

\* the frames of the filter's link: tightly packed rows; the colour tags of a
\* packed frame play no part and are left unspecified
LinkSeed == 255

Frames(w, h) ==
    {MkFrame("BGR24", "UNSPECIFIED", "UNSPECIFIED", w, h, 0, LinkSeed)}
    \cup {MkFrame(fmt, csp, range, w, h, 0, LinkSeed) :
             fmt \in PixFmts \ {"BGR24"}, csp \in Csps, range \in Ranges}

NoFrame == MkFrame("BGR24", "UNSPECIFIED", "UNSPECIFIED", 0, 0, 0, 0)

\* premultiplied ARGB texels, as cairo stores them (colour <= alpha)
Palette == <<Transparent, Texel(255, 255, 0, 0), Texel(128, 64, 128, 0),
             Texel(255, 255, 255, 255), Texel(1, 0, 1, 0)>>

Drawings == 0..1

\* what drawing k puts at texel j of a raster; drawing 0 is fully transparent
Picture(k, surface, j) ==
    LET x == (j - 1) % (surface.stride \div 4)
        y == (j - 1) \div (surface.stride \div 4)
    IN IF k = 0 THEN Transparent
       ELSE Palette[((k * x + 2 * y) % Len(Palette)) + 1]

\* flootay_render drawing k through the cairo context: the texels the drawing
\* covers are replaced, the others are left as they were
Draw(surface, k) ==
    [surface EXCEPT !.data =
        Buffer([j \in 1..Len(surface.data) |->
                   IF Picture(k, surface, j).a # 0 THEN Picture(k, surface, j)
                   ELSE surface.data[j]], Len(surface.data))]

RenderResults == {"ERROR", "EMPTY", "OK"}

\* the raster after flootay_render: EMPTY draws nothing, OK has drawn, and
\* ERROR may have drawn any part of the scene before it failed
flootay_render(surface, result, k) ==
    IF result = "EMPTY" THEN surface ELSE Draw(surface, k)

(***************************************************************************)
(* The filter.                                                             *)
(***************************************************************************)
LinkDims == {<<2, 2>>, <<4, 2>>}

NoCall == [kind |-> "none", picref |-> NoFrame, result |-> "none", ret |-> 0,
           delivered |-> 0, released |-> 0, compositor |-> "none",
           data_out |-> NoFrame.data, stores |-> 0,
           render_input_clear |-> TRUE]

NoProbe == [kind |-> "none"]

\* the zeroed private context after init
Init ==
    /\ flt = [surface |-> NullSurface, surface_is_clear |-> FALSE,
              rgb2yuv |-> ZeroMatrix, y_multiply |-> 0, y_add |-> 0,
              uv_multiply |-> 0, uv_add |-> 0]
    /\ call = NoCall
    /\ held = 0
    /\ probe = NoProbe

config_input(w, h) ==
    /\ flt' = [flt EXCEPT !.surface = cairo_image_surface_create(w, h),
                          !.surface_is_clear = FALSE]
    /\ call' = [NoCall EXCEPT !.kind = "config_input"]
    /\ UNCHANGED <<held, probe>>

RECURSIVE SumSeq(_)
SumSeq(s) == IF s = <<>> THEN 0 ELSE Head(s) + SumSeq(Tail(s))

Stores(wr) == SumSeq(wr[1]) + SumSeq(wr[2]) + SumSeq(wr[3])

\* lines 294-302
clear_if_needed(f) ==
    IF ~f.surface_is_clear
    THEN [f EXCEPT !.surface = cairo_paint_clear(f.surface),
                   !.surface_is_clear = TRUE]
    ELSE f

\* lines 323-326
dispatch_blend(f, picref, ub) ==
    IF picref.format = "BGR24" THEN blend_surface_rgb(f, picref)
    ELSE blend_surface_yuv(f, picref, ub)

\* what a call has done with the frame: nothing yet
Untouched(f, picref) ==
    [flt |-> f, ret |-> 0, delivered |-> 0, released |-> 0,
     compositor |-> "none", data_out |-> picref.data, stores |-> 0]

\* lines 318-332, case FLOOTAY_RENDER_RESULT_OK; ff_filter_frame hands the
\* frame to the next filter, which owns it from then on and returns down
\* lines 328-332: b is what the compositor handed back
after_blend(b, picref, down) ==
    [flt |-> b.flt,
     ret |-> IF b.ret # 0 THEN b.ret ELSE down,
     delivered |-> IF b.ret # 0 THEN 0 ELSE 1,
     released |-> 0,
     compositor |-> IF picref.format = "BGR24" THEN "rgb" ELSE "yuv",
     data_out |-> b.data,
     stores |-> Stores(b.wr)]

on_ok(f, picref, ub, down) ==
    after_blend(dispatch_blend([f EXCEPT !.surface_is_clear = FALSE],
                               picref, ub), picref, down)

on_empty_blends(f, picref, ub, down) == on_ok(f, picref, ub, down)

\* lines 314-316 and 332, case FLOOTAY_RENDER_RESULT_EMPTY
on_empty(f, picref, ub, down) ==
    [Untouched(f, picref) EXCEPT !.ret = down, !.delivered = 1]

on_error_falls_through(f, picref, ub, down) == on_ok(f, picref, ub, down)

\* lines 307-312, case FLOOTAY_RENDER_RESULT_ERROR
on_error(f, picref, ub, down) ==
    [Untouched(f, picref) EXCEPT !.ret = AVERROR_EXTERNAL]

\* lines 304-332: the switch on the result of flootay_render
render_switch(f, picref, result, ub, down) ==
    CASE result = "ERROR" -> on_error(f, picref, ub, down)
      [] result = "EMPTY" -> on_empty(f, picref, ub, down)
      [] OTHER -> on_ok(f, picref, ub, down)

\* the record of a call whose switch ended as o
CallRecord(o, picref, result, cleared) ==
    [kind |-> "filter_frame", picref |-> picref, result |-> result,
     ret |-> o.ret, delivered |-> o.delivered, released |-> o.released,
     compositor |-> o.compositor, data_out |-> o.data_out,
     stores |-> o.stores,
     render_input_clear |-> AllTransparent(cleared.surface)]

\* lines 304-332, on the context as lines 294-302 left it
render_and_blend(cleared, picref, result, k, ub, down) ==
    render_switch([cleared EXCEPT
                     !.surface = flootay_render(cleared.surface, result, k)],
                  picref, result, ub, down)

Returned(o, picref, result, cleared) ==
    /\ flt' = o.flt
    /\ call' = CallRecord(o, picref, result, cleared)
    /\ held' = held + 1 - o.delivered - o.released

filter_frame(picref, result, k, ub, down) ==
    /\ flt.surface # NullSurface
    /\ held < MaxHeld
    /\ Returned(render_and_blend(clear_if_needed(flt), picref, result, k,
                                 ub, down),
                picref, result, clear_if_needed(flt))
    /\ UNCHANGED probe

\* AVERROR(ENOMEM), one of the errors the next filter can return
AVERROR_ENOMEM == -12

DownstreamRets == {0, AVERROR_ENOMEM}

\* the inputs that play a part in a call: EMPTY draws nothing, the ERROR return
\* never reaches ff_filter_frame, and only rgb_to_yuv converts doubles
Relevant(picref, result, k, ub, down) ==
    /\ result = "EMPTY" => k = 0
    /\ result = "ERROR" => down = 0
    /\ (result # "OK" \/ picref.format = "BGR24") => ub = "wrap"

ConfigInput == \E d \in LinkDims : config_input(d[1], d[2])

FilterFrame ==
    \E picref \in Frames(flt.surface.w, flt.surface.h),
       result \in RenderResults, k \in Drawings, ub \in UBConv,
       down \in DownstreamRets :
        /\ Relevant(picref, result, k, ub, down)
        /\ filter_frame(picref, result, k, ub, down)

Next == ConfigInput \/ FilterFrame

Spec == Init /\ [][Next]_vars

(***************************************************************************)
(* The compositing routines applied once to inputs drawn from bounded      *)
(* sets: any byte values, any strides, rasters with row padding.           *)
(***************************************************************************)
ByteSamples == {0, 1, 2, 127, 128, 254, 255}

\* ARGB texels as four free bytes, a colour byte above the alpha byte included
RawTexels == {Transparent, Texel(255, 255, 255, 255), Texel(128, 64, 128, 0),
              Texel(10, 255, 30, 4), Texel(1, 0, 255, 128)}

ProbeDrawings == 0..2

ProbeSeeds == {100, 255}

ProbeDims == {<<2 * i, 2 * j>> : i, j \in 1..MaxBlocks}

\* row padding of the luma plane and of the two chroma planes, the chroma
\* planes padded differently from each other
Pads == {<<a, b, MaxPad - b>> : a, b \in 0..MaxPad}

PadTexel == Texel(255, 255, 255, 255)

\* a raster of w x h texels with spad texels of padding in each row, holding
\* drawing k
ProbeSurface(w, h, spad, k) ==
    LET s == [w |-> w, h |-> h, stride |-> 4 * (w + spad)]
    IN [w |-> w, h |-> h, stride |-> s.stride,
        data |-> Buffer([j \in 1..((w + spad) * h) |->
                            IF (j - 1) % (w + spad) < w THEN Picture(k, s, j)
                            ELSE PadTexel], (w + spad) * h)]

ProbeFlt(surface) ==
    [surface |-> surface, surface_is_clear |-> FALSE,
     rgb2yuv |-> ZeroMatrix, y_multiply |-> 0, y_add |-> 0,
     uv_multiply |-> 0, uv_add |-> 0]

\* a 2x2 raster holding the four texels of one block
BlockSurface(t) == [w |-> 2, h |-> 2, stride |-> 8, data |-> t]

ProbeBlendComponent(dst, src, a) ==
    /\ probe = NoProbe
    /\ probe' = [kind |-> "blend_component", dst |-> dst, src |-> src,
                 a |-> a, out |-> blend_component(dst, src, a)]
    /\ UNCHANGED <<flt, call, held>>

ProbeRgbStore(d, alpha, byte) ==
    /\ probe = NoProbe
    /\ probe' = [kind |-> "rgb_store", dst |-> d, a |-> alpha, byte |-> byte,
                 out |-> rgb_store(d, alpha, byte)]
    /\ UNCHANGED <<flt, call, held>>

ProbeRgbToYuv(t, csp, range, ub) ==
    /\ probe = NoProbe
    /\ LET f == init_rgb2yuv(ProbeFlt(BlockSurface(t)),
                             MkFrame("YUV420P", csp, range, 2, 2, 0, 0)).flt
       IN probe' = [kind |-> "rgb_to_yuv", flt |-> f, ub |-> ub,
                    out |-> rgb_to_yuv(f, 0, 8, ub)]
    /\ UNCHANGED <<flt, call, held>>

ProbeBlendSurfaceRgb(d, spad, k, pad, seed) ==
    /\ probe = NoProbe
    /\ LET f == ProbeFlt(ProbeSurface(d[1], d[2], spad, k))
           picref == MkFrame("BGR24", "UNSPECIFIED", "UNSPECIFIED",
                             d[1], d[2], pad, seed)
       IN probe' = [kind |-> "blend_surface_rgb", flt |-> f,
                    picref |-> picref, ub |-> "wrap",
                    out |-> blend_surface_rgb(f, picref)]
    /\ UNCHANGED <<flt, call, held>>

ProbeBlendSurfaceYuv(d, spad, k, pads, seed, csp, range, ub) ==
    /\ probe = NoProbe
    /\ LET f == ProbeFlt(ProbeSurface(d[1], d[2], spad, k))
           picref == MkFrameP(IF range = "JPEG" THEN "YUVJ420P" ELSE "YUV420P",
                              csp, range, d[1], d[2], pads, seed)
       IN probe' = [kind |-> "blend_surface_yuv", flt |-> f,
                    picref |-> picref, ub |-> ub,
                    out |-> blend_surface_yuv(f, picref, ub)]
    /\ UNCHANGED <<flt, call, held>>

NextPure ==
    \/ \E dst \in ByteSamples, src \in ByteSamples, a \in 0..255 :
          ProbeBlendComponent(dst, src, a)
    \/ \E d \in ByteSamples, alpha \in ByteSamples, byte \in ByteSamples :
          ProbeRgbStore(d, alpha, byte)
    \/ \E t \in [1..4 -> RawTexels], csp \in {"UNSPECIFIED", "BT709"},
          range \in {"MPEG", "JPEG"}, ub \in UBConv :
          ProbeRgbToYuv(t, csp, range, ub)
    \/ \E d \in ProbeDims, spad \in 0..MaxPad, k \in ProbeDrawings,
          pad \in 0..MaxPad, seed \in ProbeSeeds :
          ProbeBlendSurfaceRgb(d, spad, k, pad, seed)
    \/ \E d \in ProbeDims, spad \in 0..MaxPad, k \in ProbeDrawings,
          pads \in Pads, seed \in ProbeSeeds,
          csp \in {"UNSPECIFIED", "BT709"}, range \in {"MPEG", "JPEG"},
          ub \in UBConv :
          ProbeBlendSurfaceYuv(d, spad, k, pads, seed, csp, range, ub)

SpecPure == Init /\ [][NextPure]_vars

(***************************************************************************)
(* Properties of the filter (specification Spec).                          *)
(***************************************************************************)
IsFrameCall == call.kind = "filter_frame"

\* C1: whenever surface_is_clear is true every texel of the raster is
\* (0,0,0,0), and so flootay_render is always invoked on a fully transparent
\* raster, also after a failed frame and after config_input.
C1_ClearFlagMeansTransparent ==
    /\ flt.surface_is_clear => AllTransparent(flt.surface)
    /\ IsFrameCall => call.render_input_clear

\* C2: when flootay_render reports an error, filter_frame returns
\* AVERROR_EXTERNAL, does not call ff_filter_frame, runs no compositor and
\* changes no byte of any plane of the frame.
C2_RenderErrorAborts ==
    (IsFrameCall /\ call.result = "ERROR") =>
        /\ call.ret = AVERROR_EXTERNAL
        /\ call.delivered = 0
        /\ call.compositor = "none"
        /\ call.stores = 0
        /\ call.data_out = call.picref.data

\* an error return of a renderer that had drawn before it failed
C2_Witness ==
    /\ IsFrameCall /\ call.result = "ERROR"
    /\ ~AllTransparent(flt.surface)
    /\ call.picref.format = "YUV420P"

\* C3: when flootay_render reports an empty result no compositor runs,
\* surface_is_clear is still true on return, and the frame is delivered
\* exactly once with every byte of every plane as on entry.
C3_EmptyDeliversUnmodified ==
    (IsFrameCall /\ call.result = "EMPTY") =>
        /\ call.compositor = "none"
        /\ call.stores = 0
        /\ flt.surface_is_clear
        /\ call.delivered = 1
        /\ call.data_out = call.picref.data

\* an empty result on a planar frame, after an earlier frame set the colour
\* parameters
C3_Witness ==
    /\ IsFrameCall /\ call.result = "EMPTY"
    /\ call.picref.format = "YUVJ420P"
    /\ flt.rgb2yuv # ZeroMatrix

Unmappable(csp) ==
    csp # "UNSPECIFIED" /\ av_csp_luma_coeffs_from_avcsp(csp) = NullLuma

IsPlanarBlend ==
    IsFrameCall /\ call.result = "OK" /\ call.picref.format # "BGR24"

\* C4: on a planar frame whose colour-space tag has no luma coefficients,
\* blend_surface_yuv returns AVERROR(EINVAL) before storing any sample,
\* filter_frame returns that error and does not deliver the frame; an
\* unspecified tag is replaced by SMPTE170M and does not fail.
C4_UnknownColourSpaceAborts ==
    /\ (IsPlanarBlend /\ Unmappable(call.picref.colorspace)) =>
          /\ call.ret = AVERROR_EINVAL
          /\ call.stores = 0
          /\ call.data_out = call.picref.data
          /\ call.delivered = 0
    /\ (IsPlanarBlend /\ call.picref.colorspace = "UNSPECIFIED") =>
          /\ call.delivered = 1
          /\ flt.rgb2yuv = ff_fill_rgb2yuv_table(
                               av_csp_luma_coeffs_from_avcsp("SMPTE170M"))

\* an unmappable tag on a frame that follows one whose parameters were set,
\* with a raster that is not transparent
C4_Witness ==
    /\ IsPlanarBlend /\ Unmappable(call.picref.colorspace)
    /\ flt.rgb2yuv # ZeroMatrix
    /\ ~AllTransparent(flt.surface)

\* C8: the frame handed to filter_frame is never retained: on every return it
\* has been delivered downstream exactly once or released, so the filter
\* holds no frame after any sequence of frames.
C8_NoFrameRetained ==
    /\ held = 0
    /\ IsFrameCall => call.delivered + call.released = 1

RangeRow(f) ==
    [y_multiply |-> f.y_multiply, y_add |-> f.y_add,
     uv_multiply |-> f.uv_multiply, uv_add |-> f.uv_add]

\* C10: the range constants used to composite a planar frame are the limited
\* row for a YUV420P frame and the full row for a YUVJ420P frame, whatever
\* colour-range tag the frame carries and whatever frames came before.
C10_RangeRowByVariant ==
    (IsPlanarBlend /\ call.delivered = 1) =>
        RangeRow(flt) = IF call.picref.format = "YUV420P" THEN LimitedRow
                        ELSE FullRow

(***************************************************************************)
(* Properties of the compositing routines (specification SpecPure).        *)
(***************************************************************************)
IsSurfaceBlend ==
    /\ probe.kind \in {"blend_surface_rgb", "blend_surface_yuv"}
    /\ probe.out.ret = 0

\* the texel of the overlay at column x, row y
TexelAt(surface, x, y) == ReadTexel(surface, y * surface.stride + 4 * x)

OverlayAlphaZero(surface) ==
    \A x \in 0..(surface.w - 1), y \in 0..(surface.h - 1) :
        TexelAt(surface, x, y).a = 0

\* C5: compositing an overlay whose every texel has alpha 0 leaves every
\* byte of the destination unchanged, in blend_surface_rgb and in
\* blend_surface_yuv (luma plane and both chroma planes).
C5_TransparentOverlayIsIdentity ==
    (IsSurfaceBlend /\ OverlayAlphaZero(probe.flt.surface)) =>
        probe.out.data = probe.picref.data

\* a transparent overlay composited onto a planar frame that holds a 255
C5_Witness ==
    /\ IsSurfaceBlend /\ OverlayAlphaZero(probe.flt.surface)
    /\ probe.kind = "blend_surface_yuv"
    /\ probe.picref.data[1][1] = 255
    /\ Stores(probe.out.wr) > 0

\* C6: blend_component stores floor((dst * (255 - a) + src * a) / 255), which
\* is dst for a = 0, src for a = 255, and always within 0..255.
C6_BlendComponent ==
    probe.kind = "blend_component" =>
        /\ probe.out = (probe.dst * (255 - probe.a) + probe.src * probe.a)
                          \div 255
        /\ probe.a = 0 => probe.out = probe.dst
        /\ probe.a = 255 => probe.out = probe.src
        /\ probe.out \in 0..255

\* a full-scale destination blended with zero alpha
C6_Witness ==
    /\ probe.kind = "blend_component"
    /\ probe.dst = 255 /\ probe.a = 0 /\ probe.src = 1
    /\ probe.out = 255

Clamp(n) == IF n < 0 THEN 0 ELSE IF n > 255 THEN 255 ELSE n

\* the value rgb_to_yuv computes for the luma of texel i, before the store
LumaComputed(f, i) ==
    LET px == f.surface.data[i]
        den == f.rgb2yuv.d[1] * Unpremul(px.a)
    IN ScaledNum(MatRow(f.rgb2yuv, 1, px), den, f.y_multiply, f.y_add)
          \div (2 * den)

BlockSums(f, ub) ==
    rgb_to_yuv_loop(f, 0, 8, [y_out |-> <<>>, a |-> <<>>,
                              u_sum |-> 0, v_sum |-> 0], 0, ub)

\* C7: every value the packed compositor stores, and every luma and chroma
\* sample the block reducer produces, is the computed value clamped to
\* 0..255, for any texel bytes, a colour byte above the alpha byte included.
C7_StoresAreClamped ==
    /\ probe.kind = "rgb_store" =>
          probe.out = Clamp((probe.dst * (255 - probe.a) + probe.byte * 255)
                               \div 255)
    /\ probe.kind = "rgb_to_yuv" =>
          /\ \A i \in 1..4 :
                probe.out.y_out[i] = Clamp(LumaComputed(probe.flt, i))
          /\ probe.out.u = Clamp(CDiv(BlockSums(probe.flt, probe.ub).u_sum, 4))
          /\ probe.out.v = Clamp(CDiv(BlockSums(probe.flt, probe.ub).v_sum, 4))

IsYuvBlend == probe.kind = "blend_surface_yuv" /\ probe.out.ret = 0

\* the offsets of the samples of a plane of width w and height h
InFrame(ls, w, h) == {y * ls + x : x \in 0..(w - 1), y \in 0..(h - 1)}

BlockAlpha(surface, bx, by) ==
    (TexelAt(surface, 2 * bx, 2 * by).a + TexelAt(surface, 2 * bx + 1, 2 * by).a
     + TexelAt(surface, 2 * bx, 2 * by + 1).a
     + TexelAt(surface, 2 * bx + 1, 2 * by + 1).a) \div 4

BlockChroma(f, surface, bx, by, ub) ==
    rgb_to_yuv(f, 2 * by * surface.stride + 8 * bx, surface.stride, ub)

\* C9: for even dimensions and any strides, blend_surface_yuv blends luma
\* sample (x, y) with the luma and alpha of the overlay texel (x, y), blends
\* chroma sample (bx, by) of both chroma planes with the averaged chroma of
\* block (bx, by) under the alpha floor((a0+a1+a2+a3)/4), stores every sample
\* of the frame exactly once and stores nowhere else.
C9_EveryBlockOnce ==
    IsYuvBlend =>
        LET f == probe.out.flt
            s == probe.flt.surface
            pic == probe.picref
            in == pic.data
            out == probe.out.data
            wr == probe.out.wr
            w == pic.width
            h == pic.height
            ls == pic.linesize
        IN /\ f.surface = s
           /\ \A x \in 0..(w - 1), y \in 0..(h - 1) :
                 LET p == y * ls[1] + x
                     px == TexelAt(s, x, y)
                 IN /\ wr[1][p + 1] = 1
                    /\ Rd(out[1], p) = blend_component(
                           Rd(in[1], p), texel_luma(f, px, probe.ub), px.a)
           /\ \A bx \in 0..(w \div 2 - 1), by \in 0..(h \div 2 - 1) :
                 LET c == BlockChroma(f, s, bx, by, probe.ub)
                     a == BlockAlpha(s, bx, by)
                     pu == by * ls[2] + bx
                     pv == by * ls[3] + bx
                 IN /\ wr[2][pu + 1] = 1 /\ wr[3][pv + 1] = 1
                    /\ Rd(out[2], pu) = blend_component(Rd(in[2], pu), c.u, a)
                    /\ Rd(out[3], pv) = blend_component(Rd(in[3], pv), c.v, a)
           /\ \A p \in 0..(Len(in[1]) - 1) :
                 p \notin InFrame(ls[1], w, h) =>
                    wr[1][p + 1] = 0 /\ Rd(out[1], p) = Rd(in[1], p)
           /\ \A p \in 0..(Len(in[2]) - 1) :
                 p \notin InFrame(ls[2], w \div 2, h \div 2) =>
                    wr[2][p + 1] = 0 /\ Rd(out[2], p) = Rd(in[2], p)
           /\ \A p \in 0..(Len(in[3]) - 1) :
                 p \notin InFrame(ls[3], w \div 2, h \div 2) =>
                    wr[3][p + 1] = 0 /\ Rd(out[3], p) = Rd(in[3], p)

\* two block rows and two block columns, padding in every plane and in the
\* raster, and an overlay that changes the frame
C9_Witness ==
    /\ IsYuvBlend
    /\ probe.picref.width = 4 /\ probe.picref.height = 4
    /\ probe.picref.linesize = <<5, 3, 2>>
    /\ probe.flt.surface.stride = 20
    /\ probe.out.data # probe.picref.data

====
